---------------------------- MODULE Spec2Model ----------------------------
(***************************************************************************)
(* Model of the neotrak security-scan action: the SecurityOrchestrator of  *)
(* src/index.js (second, current variant, lines 617-1432) and the result   *)
(* shapes produced by the four scanner adapters under src/scanners/.       *)
(*                                                                         *)
(* Strings are TLA+ strings; where the code inspects their characters      *)
(* (toLowerCase, toUpperCase, includes) the model works on Chars(s), the   *)
(* sequence of the characters of s.  core.getInput is the platform API:    *)
(* the model draws the value it returns ("" when the input is unset).      *)
(***************************************************************************)
EXTENDS Integers, Sequences, FiniteSets, TLC

VARIABLES
    pc,              \* position of run() (src/index.js:1381-1430)
    inputs,          \* what core.getInput returns for the fail-policy inputs
    scanners,        \* SecurityOrchestrator.scanners
    idx,             \* loop position of initializeScanners / runScans
    binaryPath,      \* binaryPath of the cdxgen, secret and config singletons
    pathHasScanner,  \* ntu-scanner-trivy has been put on PATH by core.addPath
    results,         \* SecurityOrchestrator.results
    installLog,      \* per install(): <<adapter, "ok" | "threw">>, in call order
    scanLog,         \* per scan(): <<adapter, "ok" | "threw">>, in call order
    outputs,         \* the action outputs written by setOutputs
    attempt,         \* uploadCombinedResults: loop variable attempt
    lastError,       \* uploadCombinedResults: local lastError (its code)
    uploadStatus,    \* how uploadCombinedResults ended
    posts,           \* number of axios.post requests sent
    uploadLog,       \* uploadCombinedResults: its waits, file lookups, requests
                     \* and announced delays, in order
    commentStatus,   \* how postPRComment ended
    displayed,       \* displayResults has printed the consolidated report
    failReasons,     \* SecurityOrchestrator.failReasons: <<>> unset, <<list>> set
    scanEnv,         \* the environment of a scan() call, where the initial state
                     \* fixes it; its field invoked: the external tool was started
    runStatus        \* what run() reported: setFailed message kind or success

vars == <<pc, inputs, scanners, idx, binaryPath, pathHasScanner, results,
          installLog, scanLog, outputs, attempt, lastError, uploadStatus,
          posts, uploadLog, commentStatus, displayed, failReasons, scanEnv,
          runStatus>>

----------------------------------------------------------------------------
(* Bounds of the model                                                     *)

\* longest tool report (number of findings) the scan phase draws exhaustively
MaxFindings == 1
\* findings per report where a single scan() is examined
MaxReport == 2
\* raw findings per secret report where a single scan() is examined
MaxSecrets == 3

----------------------------------------------------------------------------
(* JavaScript string helpers                                               *)

UpperChars == <<"A","B","C","D","E","F","G","H","I","J","K","L","M",
                "N","O","P","Q","R","S","T","U","V","W","X","Y","Z">>
LowerChars == <<"a","b","c","d","e","f","g","h","i","j","k","l","m",
                "n","o","p","q","r","s","t","u","v","w","x","y","z">>

LowerChar(c) ==
    IF \E k \in DOMAIN UpperChars : UpperChars[k] = c
    THEN LowerChars[CHOOSE k \in DOMAIN UpperChars : UpperChars[k] = c]
    ELSE c

UpperChar(c) ==
    IF \E k \in DOMAIN LowerChars : LowerChars[k] = c
    THEN UpperChars[CHOOSE k \in DOMAIN LowerChars : LowerChars[k] = c]
    ELSE c

\* String.prototype.toLowerCase / toUpperCase
ToLowerCase(s) == [k \in DOMAIN s |-> LowerChar(s[k])]
ToUpperCase(s) == [k \in DOMAIN s |-> UpperChar(s[k])]

\* String.prototype.includes
Includes(s, sub) ==
    \E k \in 0..(Len(s) - Len(sub)) : SubSeq(s, k + 1, k + Len(sub)) = sub

\* the characters of the strings whose characters the code inspects
Chars(s) ==
    CASE s = "Trivy Vulnerability Scanner" -> 
             <<"T","r","i","v","y"," ","V","u","l","n","e","r","a","b","i","l","i","t","y"," ","S","c","a","n","n","e","r">>
      [] s = "CDXgen SBOM Generator" -> 
             <<"C","D","X","g","e","n"," ","S","B","O","M"," ","G","e","n","e","r","a","t","o","r">>
      [] s = "Secret Detector" -> <<"S","e","c","r","e","t"," ","D","e","t","e","c","t","o","r">>
      [] s = "Config Scanner" -> <<"C","o","n","f","i","g"," ","S","c","a","n","n","e","r">>
      [] s = "CRITICAL" -> <<"C","R","I","T","I","C","A","L">>
      [] s = "HIGH" -> <<"H","I","G","H">>
      [] s = "MEDIUM" -> <<"M","E","D","I","U","M">>
      [] s = "LOW" -> <<"L","O","W">>
      [] s = "UNKNOWN" -> <<"U","N","K","N","O","W","N">>
      [] s = "high" -> <<"h","i","g","h">>
      [] s = "negligible" -> <<"n","e","g","l","i","g","i","b","l","e">>
      [] s = "NEGLIGIBLE" -> <<"N","E","G","L","I","G","I","B","L","E">>
      [] s = "sbom" -> <<"s","b","o","m">>
      [] s = "config" -> <<"c","o","n","f","i","g">>
      [] s = "secret" -> <<"s","e","c","r","e","t">>
      [] s = "" -> <<>>

\* the string whose characters are cs, for the severities the code rewrites
FromChars(cs) ==
    CHOOSE s \in {"CRITICAL", "HIGH", "MEDIUM", "LOW", "UNKNOWN", "high",
                  "negligible", "NEGLIGIBLE", ""} : Chars(s) = cs

\* the value of an absent property / a find() without match
Undefined == [undefined |-> TRUE]

----------------------------------------------------------------------------
(* The scanner singletons: this.name of each adapter                       *)

TrivyName  == "Trivy Vulnerability Scanner"
CdxgenName == "CDXgen SBOM Generator"
SecretName == "Secret Detector"
ConfigName == "Config Scanner"

Adapters == {"trivy", "cdxgen", "secret", "config"}

Name(a) ==
    CASE a = "trivy"  -> TrivyName
      [] a = "cdxgen" -> CdxgenName
      [] a = "secret" -> SecretName
      [] a = "config" -> ConfigName

\* the order of registerScanner calls in run()
Registration == <<"trivy", "cdxgen", "secret", "config">>

----------------------------------------------------------------------------
(* Tool reports.  A report file is [exists, valid, findings]: whether the   *)
(* tool wrote its output file, whether the file parses as JSON, and the     *)
(* findings it lists.  A vulnerability or misconfiguration is represented   *)
(* by its Severity property ("" when the property is absent or empty:       *)
(* every reader treats the two alike); a secret by the fields the adapter   *)
(* reads.                                                                   *)

CRITICAL  == "CRITICAL"
HIGH      == "HIGH"
MEDIUM    == "MEDIUM"
LOW       == "LOW"
UNKNOWN   == "UNKNOWN"
LowerHigh == "high"
Negligible == "negligible"

SeqsUpTo(S, n) == UNION {[1..k -> S] : k \in 0..n}

\* severity the scan phase draws reports over
RunSeverities == {CRITICAL}

\* a report of one finding without a Severity
UnratedReport == <<[Severity |-> ""]>>

\* spec.md section 8: total=5 critical=2 high=3
FiveVulnerabilities ==
    <<[Severity |-> CRITICAL], [Severity |-> CRITICAL],
      [Severity |-> HIGH], [Severity |-> HIGH], [Severity |-> HIGH]>>

\* spec.md section 8: total=3 critical=1 high=0
ThreeMisconfigurations ==
    <<[Severity |-> CRITICAL], [Severity |-> MEDIUM], [Severity |-> LOW]>>

SeverityReports ==
    SeqsUpTo({[Severity |-> s] : s \in RunSeverities}, MaxFindings)
        \cup {UnratedReport}

\* a misconfiguration carries the Target of the result that lists it
\* ("" when that result has no Target)
InTarget(report, target) ==
    [k \in DOMAIN report |-> [Severity |-> report[k].Severity, Target |-> target]]

ConfigReports ==
    {InTarget(r, "main.tf") : r \in SeverityReports \cup {ThreeMisconfigurations}}

Secret(file, line, rule) ==
    [File |-> file, StartLine |-> line, EndLine |-> line, StartColumn |-> 1,
     EndColumn |-> 9, Secret |-> "s3cr3t", RuleID |-> rule]

\* a raw finding with every position 1
SecretAt(file, line, secret, rule) ==
    [File |-> file, StartLine |-> line, EndLine |-> 1, StartColumn |-> 1,
     EndColumn |-> 1, Secret |-> secret, RuleID |-> rule]

\* spec.md section 8: secret total=10
TenSecrets == [k \in 1..10 |-> Secret("a.env", k, "generic-api-key")]

SecretReports ==
    SeqsUpTo({Secret("a.env", 1, "generic-api-key"),
              Secret("a.env", 1, "aws-key")}, MaxFindings)

File(findings) == [exists |-> TRUE, valid |-> TRUE, findings |-> findings]
MissingFile    == [exists |-> FALSE, valid |-> FALSE, findings |-> <<>>]
InvalidFile    == [exists |-> TRUE, valid |-> FALSE, findings |-> <<>>]

\* the report files the external tool of adapter a may leave behind
ToolFiles(a) ==
    {MissingFile, InvalidFile} \cup
    CASE a = "trivy"  -> {File(r) : r \in SeverityReports \cup {FiveVulnerabilities}}
      [] a = "cdxgen" -> {File(r) : r \in SeverityReports \cup {FiveVulnerabilities}}
      [] a = "config" -> {File(r) : r \in ConfigReports}
      [] a = "secret" -> {File(r) : r \in SecretReports \cup {TenSecrets}}

----------------------------------------------------------------------------
(* The adapters' scan(): what the orchestrator gets back.  Threw stands for *)
(* a rejected promise; anything else is the result object.                  *)

Threw == [threw |-> TRUE]

ZeroResult == [total |-> 0, critical |-> 0, high |-> 0, medium |-> 0, low |-> 0]

Count(findings, sev) ==
    Cardinality({k \in DOMAIN findings : findings[k].Severity = sev})

\* variant: only the vulnerabilities that are counted are returned
TrivyVulnerabilitiesCounted(findings) ==
    LET counted(v) == v.Severity \in {CRITICAL, HIGH, MEDIUM, LOW}
        kept == SelectSeq(findings, counted)
    IN  [k \in DOMAIN kept |-> [severity |-> kept[k].Severity]]

\* TrivyScanner.parseResults: every vulnerability is pushed, with the
\* Severity as reported
TrivyVulnerabilities(findings) ==
    [k \in DOMAIN findings |-> [severity |-> findings[k].Severity]]

\* TrivyScanner.parseResults: exact match of Severity, total is the sum
TrivyParseResults(file) ==
    IF ~file.exists \/ ~file.valid
    THEN ZeroResult @@ [vulnerabilities |-> <<>>]
    ELSE LET criticalCount == Count(file.findings, CRITICAL)
             highCount     == Count(file.findings, HIGH)
             mediumCount   == Count(file.findings, MEDIUM)
             lowCount      == Count(file.findings, LOW)
         IN  [total    |-> criticalCount + highCount + mediumCount + lowCount,
              critical |-> criticalCount, high |-> highCount,
              medium   |-> mediumCount,   low  |-> lowCount,
              vulnerabilities |-> TrivyVulnerabilities(file.findings)]

\* TrivyScanner.scan: exec of ntu-scanner-trivy found on PATH (its exit code
\* is ignored), then parseResults; the target is not looked at
TrivyScan(env) ==
    IF ~env.exec THEN Threw ELSE TrivyParseResults(env.file)

\* CdxgenScanner.scan, the counting loop: (Severity || 'UNKNOWN').toUpperCase()
CdxgenSeverity(vuln) ==
    LET sev == ToUpperCase(Chars(IF vuln.Severity = "" THEN UNKNOWN ELSE vuln.Severity))
    IN  IF \E known \in {CRITICAL, HIGH, MEDIUM, LOW, UNKNOWN} : sev = Chars(known)
        THEN CHOOSE known \in {CRITICAL, HIGH, MEDIUM, LOW, UNKNOWN} : sev = Chars(known)
        ELSE UNKNOWN

CdxgenCount(findings, sev) ==
    Cardinality({k \in DOMAIN findings : CdxgenSeverity(findings[k]) = sev})

\* CdxgenScanner.scan: generateSBOM (target exists, run cdxgen, the SBOM file
\* must exist), trivy sbom, read and count the output; every failure throws
CdxgenScan(env) ==
    IF ~env.target \/ ~env.exec \/ ~env.sbom \/ ~env.file.exists \/ ~env.file.valid
    THEN Threw
    ELSE [total    |-> Len(env.file.findings),
          critical |-> CdxgenCount(env.file.findings, CRITICAL),
          high     |-> CdxgenCount(env.file.findings, HIGH),
          medium   |-> CdxgenCount(env.file.findings, MEDIUM),
          low      |-> CdxgenCount(env.file.findings, LOW),
          vulnerabilities |-> env.file.findings,
          sbomPath |-> "sbom.json"]

\* ConfigScanner.parseResults: Severity?.toUpperCase(), total counts every record
ConfigCount(findings, sev) ==
    Cardinality({k \in DOMAIN findings :
                    ToUpperCase(Chars(findings[k].Severity)) = Chars(sev)})

\* ConfigScanner.parseResults: Severity: severity || 'UNKNOWN'
ConfigSeverity(misconfiguration) ==
    LET severity == ToUpperCase(Chars(misconfiguration.Severity))
    IN  IF severity = <<>> THEN UNKNOWN ELSE FromChars(severity)

HasTarget(misconfiguration) == misconfiguration.Target # ""

\* variant: total counts the misconfigurations that are uploaded
ConfigTotalUploaded(findings) == Len(SelectSeq(findings, HasTarget))

\* ConfigScanner.parseResults: total++ for every misconfiguration
ConfigTotal(findings) == Len(findings)

\* the result of the two early returns of parseResults
ConfigZeroResult ==
    ZeroResult @@ [misconfigurations |-> <<>>,
                   configScanResponseDto |-> [Results |-> <<>>]]

\* ConfigScanner.parseResults; configScanResponseDto.Results is flattened to
\* the misconfigurations of the results that have a Target
ConfigParseResults(file) ==
    IF ~file.exists \/ ~file.valid
    THEN ConfigZeroResult
    ELSE LET uploaded == SelectSeq(file.findings, HasTarget)
         IN  [total    |-> ConfigTotal(file.findings),
              critical |-> ConfigCount(file.findings, CRITICAL),
              high     |-> ConfigCount(file.findings, HIGH),
              medium   |-> ConfigCount(file.findings, MEDIUM),
              low      |-> ConfigCount(file.findings, LOW),
              misconfigurations |->
                  [k \in DOMAIN file.findings |->
                      [Severity |-> ConfigSeverity(file.findings[k])]],
              configScanResponseDto |->
                  [Results |-> [k \in DOMAIN uploaded |->
                                   [Severity |-> ConfigSeverity(uploaded[k])]]]]

\* variant: a node_modules folder that cannot be deleted ends the scan
DeletionFailureThrows(env) == env.nodeModules = "undeletable"

\* fs.rmSync of node_modules inside try/catch: a failure is a warning
DeletionThrows(env) == FALSE

\* ConfigScanner.scan: the target must exist, the tool is run with its
\* failure swallowed, the report must exist, then parseResults
ConfigScan(env) ==
    IF ~env.target \/ DeletionThrows(env) \/ ~env.file.exists
    THEN Threw
    ELSE ConfigParseResults(env.file)

\* SecretDetectorScanner.scan, the reduce: the key of a raw finding,
\* `${File}:${StartLine}:${EndLine}:${StartColumn}:${EndColumn}:${Secret}`
SecretKey(item) ==
    item.File \o ":" \o ToString(item.StartLine) \o ":" \o ToString(item.EndLine)
        \o ":" \o ToString(item.StartColumn) \o ":" \o ToString(item.EndColumn)
        \o ":" \o item.Secret

RECURSIVE Deduplicate(_)
Deduplicate(findings) ==
    IF findings = <<>> THEN <<>>
    ELSE LET front == Deduplicate(SubSeq(findings, 1, Len(findings) - 1))
             item  == findings[Len(findings)]
         IN  IF \E k \in DOMAIN front : SecretKey(front[k]) = SecretKey(item)
             THEN front
             ELSE Append(front, item)

\* SecretDetectorScanner.scan: the entries of filteredSecrets
FilteredSecret(item) ==
    [RuleID |-> item.RuleID, File |-> "//////" \o item.File, Secret |-> item.Secret,
     StartLine |-> ToString(item.StartLine), EndLine |-> ToString(item.EndLine),
     StartColumn |-> ToString(item.StartColumn),
     EndColumn |-> ToString(item.EndColumn)]

\* variant: a built-in rule set is used when gitleaks.toml is absent
RulesFoundOrDefault(env) == TRUE

\* getConfigFilePath: fs.existsSync(configPath), else it throws
RulesFound(env) == env.rules

\* SecretDetectorScanner.scan: rules file, gitleaks, checkReport, deduplicate
SecretScan(env) ==
    IF \/ ~RulesFound(env) \/ DeletionThrows(env) \/ ~env.exec
       \/ ~env.file.exists \/ ~env.file.valid
    THEN Threw
    ELSE LET deduplicated == Deduplicate(env.file.findings)
         IN  [total |-> Len(deduplicated),
              critical |-> 0, high |-> 0, medium |-> 0, low |-> 0,
              secrets |-> [k \in DOMAIN deduplicated |->
                              FilteredSecret(deduplicated[k])]]

\* scan() of adapter a reaches the start of its external tool
ToolInvoked(a, env) ==
    CASE a = "trivy"  -> TRUE
      [] a = "cdxgen" -> env.target
      [] a = "secret" -> RulesFound(env)
      [] a = "config" -> env.target

\* scanner.scan(scanConfig) of adapter a
Scan(a, env) ==
    CASE a = "trivy"  -> TrivyScan(env)
      [] a = "cdxgen" -> CdxgenScan(env)
      [] a = "secret" -> SecretScan(env)
      [] a = "config" -> ConfigScan(env)

\* an environment in which the target, the rules file and the SBOM are there
Env(execOk, file) ==
    [target |-> TRUE, rules |-> TRUE, exec |-> execOk, sbom |-> TRUE,
     nodeModules |-> "absent", file |-> file, invoked |-> FALSE]

\* what scan() of adapter a can come back with once its binary is available
ScanOutcomes(a) == {Scan(a, Env(ok, f)) : ok \in BOOLEAN, f \in ToolFiles(a)}

----------------------------------------------------------------------------
(* SecurityOrchestrator: aggregation and per-category lookup                *)

\* scanResult.x || 0
OrZero(r, f) == IF f \in DOMAIN r THEN r[f] ELSE 0

\* variant: the counts are assigned instead of added
AggregateOverwrite(res, scanResult) ==
    [res EXCEPT !.total    = OrZero(scanResult, "total"),
                !.critical = OrZero(scanResult, "critical"),
                !.high     = OrZero(scanResult, "high"),
                !.medium   = OrZero(scanResult, "medium"),
                !.low      = OrZero(scanResult, "low")]

\* variant: the severity counts are added but total is left alone
AggregateWithoutTotal(res, scanResult) ==
    [res EXCEPT !.critical = @ + OrZero(scanResult, "critical"),
                !.high     = @ + OrZero(scanResult, "high"),
                !.medium   = @ + OrZero(scanResult, "medium"),
                !.low      = @ + OrZero(scanResult, "low")]

\* SecurityOrchestrator.aggregateResults
AggregateResults(res, scanResult) ==
    [res EXCEPT !.total    = @ + OrZero(scanResult, "total"),
                !.critical = @ + OrZero(scanResult, "critical"),
                !.high     = @ + OrZero(scanResult, "high"),
                !.medium   = @ + OrZero(scanResult, "medium"),
                !.low      = @ + OrZero(scanResult, "low")]

\* variant: a scan() that throws clears the aggregate
RecordScanResetsOnThrow(res, a, outcome) ==
    IF outcome = Threw
    THEN [res EXCEPT !.total = 0, !.critical = 0, !.high = 0,
                     !.medium = 0, !.low = 0, !.scannerResults = <<>>]
    ELSE LET agg == AggregateResults(res, outcome)
         IN  [agg EXCEPT !.scannerResults =
                  Append(@, outcome @@ [scanner |-> Name(a)])]

\* variant: a scan() that threw leaves a zero-valued entry
RecordScanWithPlaceholder(res, a, outcome) ==
    LET r == IF outcome = Threw THEN ZeroResult ELSE outcome
        agg == AggregateResults(res, r)
    IN  [agg EXCEPT !.scannerResults = Append(@, r @@ [scanner |-> Name(a)])]

\* runScans, the body of the try block once scan() has settled:
\* a result is aggregated and pushed as {scanner: name, ...result}
RecordScan(res, a, outcome) ==
    IF outcome = Threw
    THEN res
    ELSE LET agg == AggregateResults(res, outcome)
         IN  [agg EXCEPT !.scannerResults =
                  Append(@, outcome @@ [scanner |-> Name(a)])]

\* variant: a failing install() ends the loop
AfterInstallAbort(i, threw) == IF threw THEN Len(Registration) + 1 ELSE i + 1

\* the loops of initializeScanners and runScans go on after a catch
AfterInstall(i, threw) == i + 1
AfterScan(i, threw) == i + 1

Min(S) == CHOOSE m \in S : \A n \in S : m <= n

\* Array.prototype.find over the positions that match
First(list, matches) ==
    IF matches = {} THEN Undefined ELSE list[Min(matches)]

\* name.toLowerCase().includes(word), for the names and words of this program
LowerNameIncludes ==
    [name \in {Name(a) : a \in Adapters}, word \in {"sbom", "config", "secret"} |->
        Includes(ToLowerCase(Chars(name)), Chars(word))]

\* r.scanner && r.scanner.toLowerCase().includes(word)
NameHas(r, word) == r.scanner # "" /\ LowerNameIncludes[r.scanner, word]

SbomWord   == "sbom"
ConfigWord == "config"
SecretWord == "secret"

GetTrivySbomResult(list) ==
    First(list, {k \in DOMAIN list :
                    NameHas(list[k], SbomWord) /\ ~NameHas(list[k], ConfigWord)})

\* variant: the word is looked up in the name as written
GetConfigResultCaseSensitive(list) ==
    First(list, {k \in DOMAIN list :
                    Includes(Chars(list[k].scanner), Chars(ConfigWord))})

GetConfigResult(list) ==
    First(list, {k \in DOMAIN list : NameHas(list[k], ConfigWord)})

GetSecretResult(list) ==
    First(list, {k \in DOMAIN list : NameHas(list[k], SecretWord)})

----------------------------------------------------------------------------
(* SecurityOrchestrator.shouldFail                                          *)

\* variant: the toggle is ignored
ToggleAlwaysEnabled(v) == TRUE

\* variant: the toggle is parsed leniently ("False" and "0" also switch off)
ToggleEnabledLenient(v) == v \notin {"false", "False", "0"}

\* core.getInput('fail-on-...') !== 'false'
ToggleEnabled(v) == v # "false"

\* core.getInput('exit-code') || '1'
ExitCodeInput(v) == IF v = "" THEN "1" ELSE v

\* variant: only exit-code suppresses, the master override is not read
SuppressedByExitCodeOnly(inp) == ExitCodeInput(inp.exitCode) = "0"

\* the two early returns of shouldFail
Suppressed(inp) ==
    inp.failOnVulneribility = "false" \/ ExitCodeInput(inp.exitCode) = "0"

\* toggle && result && result.total > 0
CategoryFails(enabled, r) == enabled /\ r # Undefined /\ r.total > 0

VulnerabilityReason(r) ==
    ToString(r.total) \o " vulnerabilities (" \o ToString(r.critical)
        \o " Critical, " \o ToString(r.high) \o " High)"

MisconfigurationReason(r) ==
    ToString(r.total) \o " misconfigurations (" \o ToString(r.critical)
        \o " Critical, " \o ToString(r.high) \o " High)"

SecretReason(r) == ToString(r.total) \o " secrets detected"

\* the three checks of shouldFail, each over its own lookup
VulnerabilityFails(inp, list) ==
    CategoryFails(ToggleEnabled(inp.failOnVulnerability), GetTrivySbomResult(list))

MisconfigurationFails(inp, list) ==
    CategoryFails(ToggleEnabled(inp.failOnMisconfiguration), GetConfigResult(list))

SecretFails(inp, list) ==
    CategoryFails(ToggleEnabled(inp.failOnSecret), GetSecretResult(list))

\* variant: the secret check comes first
FailReasonsSecretFirst(inp, list) ==
    (IF SecretFails(inp, list)
     THEN <<SecretReason(GetSecretResult(list))>> ELSE <<>>)
    \o
    (IF VulnerabilityFails(inp, list)
     THEN <<VulnerabilityReason(GetTrivySbomResult(list))>> ELSE <<>>)
    \o
    (IF MisconfigurationFails(inp, list)
     THEN <<MisconfigurationReason(GetConfigResult(list))>> ELSE <<>>)

\* the reasons pushed by the three checks, in their order in the code
FailReasonsOf(inp, list) ==
    (IF VulnerabilityFails(inp, list)
     THEN <<VulnerabilityReason(GetTrivySbomResult(list))>> ELSE <<>>)
    \o
    (IF MisconfigurationFails(inp, list)
     THEN <<MisconfigurationReason(GetConfigResult(list))>> ELSE <<>>)
    \o
    (IF SecretFails(inp, list)
     THEN <<SecretReason(GetSecretResult(list))>> ELSE <<>>)

\* variant: the reasons are computed but not stored on the orchestrator
ShouldFailWithoutStoring(inp, list, old) ==
    IF Suppressed(inp)
    THEN [ret |-> FALSE, failReasons |-> old]
    ELSE [ret |-> \/ VulnerabilityFails(inp, list)
                  \/ MisconfigurationFails(inp, list)
                  \/ SecretFails(inp, list),
          failReasons |-> old]

\* shouldFail(): the returned value and this.failReasons afterwards
\* (old is this.failReasons before the call: the early returns leave it)
ShouldFail(inp, list, old) ==
    IF Suppressed(inp)
    THEN [ret |-> FALSE, failReasons |-> old]
    ELSE [ret |-> \/ VulnerabilityFails(inp, list)
                  \/ MisconfigurationFails(inp, list)
                  \/ SecretFails(inp, list),
          failReasons |-> <<FailReasonsOf(inp, list)>>]

----------------------------------------------------------------------------
(* The inputs of the fail policy, as core.getInput returns them             *)

ToggleValues   == {"", "false", "true", "False", "0"}
OverrideValues == {"", "false", "False"}
ExitCodeValues == {"", "0", "1"}

AllInputs ==
    [failOnVulneribility : OverrideValues, exitCode : ExitCodeValues,
     failOnVulnerability : ToggleValues, failOnMisconfiguration : ToggleValues,
     failOnSecret : ToggleValues]

DefaultInputs ==
    [failOnVulneribility |-> "", exitCode |-> "", failOnVulnerability |-> "",
     failOnMisconfiguration |-> "", failOnSecret |-> ""]

\* the inputs whole runs are explored with: the defaults, each suppression,
\* and one toggle switched off
RunInputs ==
    {DefaultInputs,
     [DefaultInputs EXCEPT !.failOnVulneribility = "false"],
     [DefaultInputs EXCEPT !.exitCode = "0"],
     [DefaultInputs EXCEPT !.failOnSecret = "false"]}

----------------------------------------------------------------------------
(* run(): the order of its statements                                       *)

\* variant: the fail decision is taken before the upload
RunOrderDecideBeforeUpload ==
    <<"register", "install", "scan", "display", "outputs", "decide", "upload",
      "comment", "done">>

RunOrder ==
    <<"register", "install", "scan", "display", "outputs", "upload", "comment",
      "decide", "done">>

NextPhase(p) ==
    RunOrder[(CHOOSE k \in DOMAIN RunOrder : RunOrder[k] = p) + 1]

\* new SecurityOrchestrator(): the constructor's results object
EmptyResults ==
    [total |-> 0, critical |-> 0, high |-> 0, medium |-> 0, low |-> 0,
     scannerResults |-> <<>>]

NoBinary == [a \in {"cdxgen", "secret", "config"} |-> FALSE]

\* uploadCombinedResults: const maxRetries
maxRetries == 3
\* uploadCombinedResults: const retryDelay, in milliseconds
retryDelay == 5000

RetryableCodes == {"ETIMEDOUT", "ECONNABORTED", "ECONNRESET", "ENOTFOUND"}
\* what axios.post may reject with: a retryable code or an HTTP 4xx response
ErrorCodes == RetryableCodes \cup {"ERR_BAD_REQUEST"}

Init ==
    /\ pc = "register"
    /\ inputs \in RunInputs
    /\ scanners = <<>>
    /\ idx = 1
    /\ binaryPath = NoBinary
    /\ pathHasScanner = FALSE
    /\ results = EmptyResults
    /\ installLog = <<>>
    /\ scanLog = <<>>
    /\ outputs = Undefined
    /\ attempt = 0
    /\ lastError = "none"
    /\ uploadStatus = "none"
    /\ posts = 0
    /\ uploadLog = <<>>
    /\ commentStatus = "none"
    /\ displayed = FALSE
    /\ failReasons = <<>>
    /\ scanEnv = Undefined
    /\ runStatus = "running"

\* orchestrator.registerScanner(...), four times, in the order of run()
RegisterScanner ==
    /\ pc = "register"
    /\ Len(scanners) < Len(Registration)
    /\ scanners' = Append(scanners, Registration[Len(scanners) + 1])
    /\ pc' = IF Len(scanners') = Len(Registration) THEN NextPhase(pc) ELSE pc
    /\ UNCHANGED <<scanEnv, uploadLog, inputs, idx, binaryPath,
                   pathHasScanner, results, installLog, scanLog, outputs,
                   attempt, lastError, uploadStatus, posts, commentStatus,
                   displayed, failReasons, runStatus>>

\* install() of adapter a succeeded: the singleton state it leaves
\* (the config adapter installs through the trivy installer)
Installed(a, paths) ==
    IF a = "trivy" THEN paths ELSE [paths EXCEPT ![a] = TRUE]

PutsScannerOnPath(a) == a \in {"trivy", "config"}

\* one iteration of the loop of initializeScanners
InstallScanner ==
    /\ pc = "install"
    /\ \E ok \in BOOLEAN :
         LET a == scanners[idx]
             next == AfterInstall(idx, ~ok)
         IN  /\ binaryPath' = IF ok THEN Installed(a, binaryPath) ELSE binaryPath
             /\ pathHasScanner' = (pathHasScanner \/ (ok /\ PutsScannerOnPath(a)))
             /\ installLog' = Append(installLog, <<a, IF ok THEN "ok" ELSE "threw">>)
             /\ IF next > Len(scanners)
                THEN pc' = NextPhase(pc) /\ idx' = 1
                ELSE pc' = pc /\ idx' = next
    /\ UNCHANGED <<scanEnv, uploadLog, inputs, scanners, results, scanLog,
                   outputs, attempt, lastError, uploadStatus, posts,
                   commentStatus, displayed, failReasons, runStatus>>

\* the binary scan() of adapter a executes can be started
BinaryAvailable(a) ==
    IF a = "trivy" THEN pathHasScanner ELSE binaryPath[a]

\* one iteration of the loop of runScans
RunScan ==
    /\ pc = "scan"
    /\ \E settled \in ScanOutcomes(scanners[idx]) :
         LET a == scanners[idx]
             outcome == IF BinaryAvailable(a) THEN settled ELSE Threw
             next == AfterScan(idx, outcome = Threw)
         IN  /\ results' = RecordScan(results, a, outcome)
             /\ scanLog' = Append(scanLog,
                                  <<a, IF outcome = Threw THEN "threw" ELSE "ok">>)
             /\ IF next > Len(scanners)
                THEN pc' = NextPhase(pc) /\ idx' = 1
                ELSE pc' = pc /\ idx' = next
    /\ UNCHANGED <<scanEnv, uploadLog, inputs, scanners, binaryPath,
                   pathHasScanner, installLog, outputs, attempt, lastError,
                   uploadStatus, posts, commentStatus, displayed, failReasons,
                   runStatus>>

\* orchestrator.displayResults(): prints, changes nothing of the orchestrator
DisplayResults ==
    /\ pc = "display"
    /\ displayed' = TRUE
    /\ pc' = NextPhase(pc)
    /\ UNCHANGED <<scanEnv, uploadLog, inputs, scanners, idx, binaryPath,
                   pathHasScanner, results, installLog, scanLog, outputs,
                   attempt, lastError, uploadStatus, posts, commentStatus,
                   failReasons, runStatus>>

\* orchestrator.setOutputs()
SetOutputs ==
    /\ pc = "outputs"
    /\ outputs' = [vulnerabilitiesFound |-> results.total,
                   criticalCount |-> results.critical,
                   highCount |-> results.high]
    /\ pc' = NextPhase(pc)
    /\ UNCHANGED <<scanEnv, uploadLog, inputs, scanners, idx, binaryPath,
                   pathHasScanner, results, installLog, scanLog, attempt,
                   lastError, uploadStatus, posts, commentStatus, displayed,
                   failReasons, runStatus>>

IsRetryable(code) == code \in RetryableCodes

\* this.getTrivySbomResult()?.sbomPath ("" when there is none)
SbomPath(list) ==
    LET r == GetTrivySbomResult(list)
    IN  IF r # Undefined /\ "sbomPath" \in DOMAIN r THEN r.sbomPath ELSE ""

\* variant: the wait doubles with every retry
RetryWaitExponential(k) == retryDelay * 2 ^ (k - 1)

\* const delay = retryDelay * attempt, awaited before the request of attempt k
RetryWait(k) == retryDelay * k

\* "Will retry in ${(retryDelay * (attempt + 1)) / 1000}s", after attempt k failed
AnnouncedWait(k) == retryDelay * (k + 1)

\* variant: attempts go on after a failure that is not retryable
BreaksLoopOnLastAttemptOnly(cur, code) == cur >= maxRetries

\* if (attempt >= maxRetries || !isRetryable) break
BreaksLoop(cur, code) == cur >= maxRetries \/ ~IsRetryable(code)

\* variant: the upload is attempted without an SBOM file
SkipsUploadNever(path, onDisk) == FALSE

\* if (!sbomPath || !fs.existsSync(sbomPath)) return
SkipsUpload(path, onDisk) == path = "" \/ ~onDisk

\* variant: an upload that failed for good rejects, which ends run() in its catch
AfterUploadFailedThrows(p) == "done"

\* after the loop: a warning, then the function returns to run()
AfterUploadFailed(p) == NextPhase(p)

\* one pass of the retry loop of uploadCombinedResults; attempt is 0 outside
\* the function and the loop variable inside it.  lastError keeps the code of
\* the last failed request.  The SBOM file is looked up on every pass; nothing
\* in the program removes it, so a file found on the first pass is there on
\* the later ones.
UploadAttempt ==
    /\ pc = "upload"
    /\ \E onDisk \in (IF attempt = 0 THEN BOOLEAN ELSE {TRUE}),
          response \in {"ok"} \cup ErrorCodes :
         LET cur == IF attempt = 0 THEN 1 ELSE attempt
             waited == IF cur > 1
                       THEN Append(uploadLog, <<"wait", RetryWait(cur)>>)
                       ELSE uploadLog
             looked == Append(waited, <<"existsSync", IF onDisk THEN 1 ELSE 0>>)
             sent == Append(looked, <<"post", 0>>)
         IN  IF SkipsUpload(SbomPath(results.scannerResults), onDisk)
             THEN /\ uploadStatus' = "skipped"
                  /\ attempt' = 0
                  /\ pc' = NextPhase(pc)
                  /\ uploadLog' = IF SbomPath(results.scannerResults) = ""
                                  THEN waited ELSE looked
                  /\ UNCHANGED <<posts, lastError>>
             ELSE /\ posts' = posts + 1
                  /\ IF response = "ok"
                     THEN /\ uploadStatus' = "success"
                          /\ attempt' = 0
                          /\ pc' = NextPhase(pc)
                          /\ uploadLog' = sent
                          /\ UNCHANGED lastError
                     ELSE /\ lastError' = response
                          /\ IF BreaksLoop(cur, response)
                             THEN /\ uploadStatus' = "failed"
                                  /\ attempt' = 0
                                  /\ pc' = AfterUploadFailed(pc)
                                  /\ uploadLog' = sent
                             ELSE /\ attempt' = cur + 1
                                  /\ uploadLog' =
                                         Append(sent, <<"announce", AnnouncedWait(cur)>>)
                                  /\ UNCHANGED <<uploadStatus, pc>>
    /\ UNCHANGED <<scanEnv, inputs, scanners, idx, binaryPath, pathHasScanner,
                   results, installLog, scanLog, outputs, commentStatus,
                   displayed, failReasons, runStatus>>

\* orchestrator.postPRComment(): skipped without token or pull request,
\* a failure to post is caught and logged
PostPRComment ==
    /\ pc = "comment"
    /\ \E onPullRequest \in BOOLEAN, posted \in BOOLEAN :
         commentStatus' = IF ~onPullRequest THEN "skipped"
                          ELSE IF posted THEN "posted" ELSE "failed"
    /\ pc' = NextPhase(pc)
    /\ UNCHANGED <<scanEnv, uploadLog, inputs, scanners, idx, binaryPath,
                   pathHasScanner, results, installLog, scanLog, outputs,
                   attempt, lastError, uploadStatus, posts, displayed,
                   failReasons, runStatus>>

\* run(): if (orchestrator.shouldFail()) setFailed(...failReasons.join...) else
\* info(success); reading unset failReasons throws into the catch of run()
FailDecision ==
    /\ pc = "decide"
    /\ LET sf == ShouldFail(inputs, results.scannerResults, failReasons)
       IN  /\ failReasons' = sf.failReasons
           /\ runStatus' = IF ~sf.ret THEN "success"
                           ELSE IF sf.failReasons = <<>> THEN "error"
                           ELSE "issues"
    /\ pc' = NextPhase(pc)
    /\ UNCHANGED <<scanEnv, uploadLog, inputs, scanners, idx, binaryPath,
                   pathHasScanner, results, installLog, scanLog, outputs,
                   attempt, lastError, uploadStatus, posts, commentStatus,
                   displayed>>

Next ==
    \/ RegisterScanner
    \/ InstallScanner
    \/ RunScan
    \/ DisplayResults
    \/ SetOutputs
    \/ UploadAttempt
    \/ PostPRComment
    \/ FailDecision

Spec == Init /\ [][Next]_vars

----------------------------------------------------------------------------
(* The fail decision on its own: run() at the point where it calls          *)
(* shouldFail(), over every combination of the input values and over the    *)
(* per-scanner lists the scan phase leaves when each adapter either threw,  *)
(* found nothing, or reported the findings of spec.md section 8.            *)

PolicyOutcomes(a) ==
    {Threw} \cup
    {Scan(a, Env(TRUE, f)) :
        f \in {File(<<>>),
               File(CASE a = "config" ->
                             InTarget(ThreeMisconfigurations, "main.tf")
                      [] a = "secret" -> TenSecrets
                      [] OTHER        -> FiveVulnerabilities)}}

\* the per-scanner list and totals runScans leaves for the outcomes o
ScanPhase(o) ==
    RecordScan(RecordScan(RecordScan(RecordScan(EmptyResults,
        Registration[1], o[1]), Registration[2], o[2]),
        Registration[3], o[3]), Registration[4], o[4])

PolicyInit ==
    /\ pc = "decide"
    /\ scanners = Registration
    /\ idx = 1
    /\ binaryPath = [a \in {"cdxgen", "secret", "config"} |-> TRUE]
    /\ pathHasScanner = TRUE
    /\ installLog = [k \in DOMAIN Registration |-> <<Registration[k], "ok">>]
    /\ \E o1 \in PolicyOutcomes(Registration[1]), o2 \in PolicyOutcomes(Registration[2]),
          o3 \in PolicyOutcomes(Registration[3]), o4 \in PolicyOutcomes(Registration[4]) :
         LET o == <<o1, o2, o3, o4>>
         IN  /\ results = ScanPhase(o)
             /\ scanLog = [k \in DOMAIN Registration |->
                             <<Registration[k], IF o[k] = Threw THEN "threw" ELSE "ok">>]
    /\ outputs = [vulnerabilitiesFound |-> results.total,
                  criticalCount |-> results.critical,
                  highCount |-> results.high]
    /\ attempt = 0
    /\ lastError = "none"
    /\ uploadStatus = IF SbomPath(results.scannerResults) = "" THEN "skipped"
                      ELSE "success"
    /\ posts = IF SbomPath(results.scannerResults) = "" THEN 0 ELSE 1
    /\ uploadLog = IF SbomPath(results.scannerResults) = "" THEN <<>>
                   ELSE << <<"existsSync", 1>>, <<"post", 0>> >>
    /\ commentStatus = "skipped"
    /\ displayed = TRUE
    /\ failReasons = <<>>
    /\ scanEnv = Undefined
    /\ runStatus = "running"
    /\ inputs \in AllInputs

SpecPolicy == PolicyInit /\ [][FailDecision]_vars

----------------------------------------------------------------------------
(* The tail of run() from the call of uploadCombinedResults on, for the     *)
(* same per-scanner lists.  run() is one sequential async function: every   *)
(* awaited step settles and the statement after it is executed, hence the   *)
(* weak fairness.                                                           *)

UploadInit ==
    /\ pc = "upload"
    /\ scanners = Registration
    /\ idx = 1
    /\ binaryPath = [a \in {"cdxgen", "secret", "config"} |-> TRUE]
    /\ pathHasScanner = TRUE
    /\ installLog = [k \in DOMAIN Registration |-> <<Registration[k], "ok">>]
    /\ \E o1 \in PolicyOutcomes(Registration[1]), o2 \in PolicyOutcomes(Registration[2]),
          o3 \in PolicyOutcomes(Registration[3]), o4 \in PolicyOutcomes(Registration[4]) :
         LET o == <<o1, o2, o3, o4>>
         IN  /\ results = ScanPhase(o)
             /\ scanLog = [k \in DOMAIN Registration |->
                             <<Registration[k], IF o[k] = Threw THEN "threw" ELSE "ok">>]
    /\ outputs = [vulnerabilitiesFound |-> results.total,
                  criticalCount |-> results.critical,
                  highCount |-> results.high]
    /\ attempt = 0
    /\ lastError = "none"
    /\ uploadStatus = "none"
    /\ posts = 0
    /\ uploadLog = <<>>
    /\ commentStatus = "none"
    /\ displayed = TRUE
    /\ failReasons = <<>>
    /\ scanEnv = Undefined
    /\ runStatus = "running"
    /\ inputs \in RunInputs

NextFromUpload ==
    \/ UploadAttempt
    \/ PostPRComment
    \/ FailDecision

SpecUpload ==
    UploadInit /\ [][NextFromUpload]_vars /\ WF_vars(NextFromUpload)

----------------------------------------------------------------------------
(* A single scan(): runScans with one registered adapter whose install()    *)
(* succeeded, over the environments the call can find: whether the scan     *)
(* target exists, whether gitleaks.toml exists, whether the external tool   *)
(* can be executed, whether cdxgen wrote its SBOM, and the report file the  *)
(* tool left.  A tool that did not run on an existing target leaves no      *)
(* report.  For the cdxgen adapter plainFile is the report the tool of the  *)
(* plain vulnerability adapter writes for the same configuration.           *)

ScanSeverities == {CRITICAL, HIGH, MEDIUM, LOW, UNKNOWN, "", LowerHigh, Negligible}

ScanTargets == {"main.tf", ""}

ScanSecrets ==
    {SecretAt("f", 1, "1:x", "generic-api-key"),
     SecretAt("f", 1, "1:x", "aws-key"),
     SecretAt("f:1", 1, "x", "generic-api-key"),
     SecretAt("f", 2, "1:x", "generic-api-key")}

ScanFiles(a) ==
    {MissingFile, InvalidFile} \cup
    CASE a = "secret" ->
             {File(r) : r \in SeqsUpTo(ScanSecrets, MaxSecrets)}
      [] a = "config" ->
             {File(r) : r \in SeqsUpTo({[Severity |-> sev, Target |-> t] :
                                           sev \in ScanSeverities, t \in ScanTargets},
                                       MaxReport)}
      [] OTHER ->
             {File(r) : r \in SeqsUpTo({[Severity |-> sev] : sev \in ScanSeverities},
                                       MaxReport)}

PlainFiles == {MissingFile, File(<<>>), File(FiveVulnerabilities)}

ScanEnvs(a) ==
    {e \in [target : BOOLEAN,
            rules : IF a = "secret" THEN BOOLEAN ELSE {TRUE},
            exec : BOOLEAN,
            sbom : IF a = "cdxgen" THEN BOOLEAN ELSE {TRUE},
            nodeModules : IF a \in {"secret", "config"}
                          THEN {"absent", "deleted", "undeletable"}
                          ELSE {"absent"},
            file : ScanFiles(a),
            plainFile : IF a = "cdxgen" THEN PlainFiles ELSE {MissingFile},
            invoked : {FALSE}] :
        /\ (~e.target \/ ~e.rules \/ ~e.exec \/ ~e.sbom) => e.file = MissingFile
        /\ (~e.target \/ ~e.exec) => e.plainFile = MissingFile
        /\ ~e.target => e.nodeModules = "absent"}

ScanInit ==
    /\ pc = "scan"
    /\ inputs = DefaultInputs
    /\ \E a \in Adapters :
         /\ scanners = <<a>>
         /\ installLog = << <<a, "ok">> >>
         /\ scanEnv \in ScanEnvs(a)
    /\ idx = 1
    /\ binaryPath = [a \in {"cdxgen", "secret", "config"} |-> TRUE]
    /\ pathHasScanner = TRUE
    /\ results = EmptyResults
    /\ scanLog = <<>>
    /\ outputs = Undefined
    /\ attempt = 0
    /\ lastError = "none"
    /\ uploadStatus = "none"
    /\ posts = 0
    /\ uploadLog = <<>>
    /\ commentStatus = "none"
    /\ displayed = FALSE
    /\ failReasons = <<>>
    /\ runStatus = "running"

\* one iteration of the loop of runScans, in the environment scanEnv
ScanOnce ==
    /\ pc = "scan"
    /\ LET a == scanners[idx]
           outcome == IF BinaryAvailable(a) THEN Scan(a, scanEnv) ELSE Threw
           next == AfterScan(idx, outcome = Threw)
       IN  /\ results' = RecordScan(results, a, outcome)
           /\ scanLog' = Append(scanLog,
                                <<a, IF outcome = Threw THEN "threw" ELSE "ok">>)
           /\ scanEnv' = [scanEnv EXCEPT
                              !.invoked = BinaryAvailable(a) /\ ToolInvoked(a, scanEnv)]
           /\ IF next > Len(scanners)
              THEN pc' = NextPhase(pc) /\ idx' = 1
              ELSE pc' = pc /\ idx' = next
    /\ UNCHANGED <<inputs, scanners, binaryPath, pathHasScanner, installLog,
                   outputs, attempt, lastError, uploadStatus, posts,
                   uploadLog, commentStatus, displayed, failReasons,
                   runStatus>>

SpecScan == ScanInit /\ [][ScanOnce]_vars

----------------------------------------------------------------------------
(* Properties                                                               *)

Range(f) == {f[k] : k \in DOMAIN f}

Categories == <<"vulnerability", "misconfiguration", "secret">>

\* the input that switches category c
Toggle(c) ==
    CASE c = "vulnerability"    -> inputs.failOnVulnerability
      [] c = "misconfiguration" -> inputs.failOnMisconfiguration
      [] c = "secret"           -> inputs.failOnSecret

\* the result the orchestrator's lookup finds for category c
Found(c) ==
    CASE c = "vulnerability"    -> GetTrivySbomResult(results.scannerResults)
      [] c = "misconfiguration" -> GetConfigResult(results.scannerResults)
      [] c = "secret"           -> GetSecretResult(results.scannerResults)

Reason(c) ==
    CASE c = "vulnerability"    -> VulnerabilityReason(Found(c))
      [] c = "misconfiguration" -> MisconfigurationReason(Found(c))
      [] c = "secret"           -> SecretReason(Found(c))

HasFindings(c) == Found(c) # Undefined /\ Found(c).total > 0

\* neither suppression applies, and the decision has been taken
Decided == pc = "done"
NotSuppressed == inputs.failOnVulneribility # "false" /\ inputs.exitCode # "0"

C2_SuppressionAlwaysPasses ==
    (Decided /\ (inputs.failOnVulneribility = "false" \/ inputs.exitCode = "0")) =>
        runStatus = "success"

C2_Witness ==
    /\ Decided
    /\ inputs.exitCode = "0" /\ inputs.failOnVulneribility # "false"
    /\ \A k \in DOMAIN Categories :
           Toggle(Categories[k]) # "false" /\ HasFindings(Categories[k])
    /\ runStatus = "success"

\* C3: each toggle is enabled for every value other than "false" (unset,
\* "true", "False", "0"), and whether a category fails the run depends on its
\* own toggle and result only: its reason is reported exactly when its toggle
\* is not "false" and its result has findings, whatever the other two toggles.
C3_TogglesExactAndIndependent ==
    (Decided /\ NotSuppressed) =>
        \A k \in DOMAIN Categories :
            LET c == Categories[k]
            IN  Found(c) # Undefined =>
                    ((Reason(c) \in Range(failReasons[1])) <=>
                         (Toggle(c) # "false" /\ Found(c).total > 0))

C3_Witness ==
    /\ Decided /\ NotSuppressed
    /\ inputs.failOnVulnerability = "False"
    /\ inputs.failOnMisconfiguration = "0"
    /\ inputs.failOnSecret = "false"
    /\ \A k \in DOMAIN Categories : HasFindings(Categories[k])
    /\ Reason("vulnerability") \in Range(failReasons[1])
    /\ Reason("misconfiguration") \in Range(failReasons[1])
    /\ Reason("secret") \notin Range(failReasons[1])

CategoryFailing(c) == Toggle(c) # "false" /\ HasFindings(c)

\* C4: when the categories are evaluated, the reasons list has exactly one
\* entry per failing category, in the order vulnerability, misconfiguration,
\* secret, and none for the others; with no failing category the verdict is
\* PASS and the list is empty.
C4_ReasonsPerFailingCategoryInOrder ==
    (Decided /\ NotSuppressed) =>
        LET failing == SelectSeq(Categories, CategoryFailing)
        IN  /\ failReasons = <<[k \in DOMAIN failing |-> Reason(failing[k])]>>
            /\ (failing = <<>>) => (runStatus = "success" /\ failReasons = << <<>> >>)

C4_Witness ==
    /\ Decided /\ NotSuppressed
    /\ Found("vulnerability") # Undefined /\ Found("vulnerability").total = 0
    /\ HasFindings("secret") /\ Toggle("secret") # "false"
    /\ failReasons = << <<"3 misconfigurations (1 Critical, 0 High)",
                          "10 secrets detected">> >>
    /\ runStatus = "issues"

\* the adapters that report vulnerabilities: the plain vulnerability adapter
\* and the SBOM+vulnerability adapter
VulnerabilityAdapters == {"trivy", "cdxgen"}

OnlyFiveVulnerabilities ==
    /\ Len(results.scannerResults) = 1
    /\ \E a \in VulnerabilityAdapters : results.scannerResults[1].scanner = Name(a)
    /\ results.scannerResults[1].total = 5
    /\ results.scannerResults[1].critical = 2
    /\ results.scannerResults[1].high = 3

\* C5: with default toggles and no suppression, a run whose only scanner
\* result is a vulnerability result with total=5, critical=2, high=3, from
\* either vulnerability-producing adapter, ends with verdict FAIL and the
\* reasons <<"5 vulnerabilities (2 Critical, 3 High)">>.
C5_FiveVulnerabilitiesFailTheRun ==
    (Decided /\ inputs = DefaultInputs /\ OnlyFiveVulnerabilities) =>
        /\ runStatus = "issues"
        /\ failReasons = << <<"5 vulnerabilities (2 Critical, 3 High)">> >>

RECURSIVE SumOf(_, _)
SumOf(list, f) ==
    IF list = <<>> THEN 0
    ELSE SumOf(SubSeq(list, 1, Len(list) - 1), f)
         + (IF f \in DOMAIN list[Len(list)] THEN list[Len(list)][f] ELSE 0)

\* C6: in every state, after each step of the scan phase, the aggregate total
\* and each of its critical/high/medium/low counts is the sum of that count
\* over the results aggregated so far (a missing count counting 0), whatever
\* the scanners' categories.
C6_AggregationAdditive ==
    \A f \in {"total", "critical", "high", "medium", "low"} :
        results[f] = SumOf(results.scannerResults, f)

C6_Witness ==
    /\ Len(results.scannerResults) = 4
    /\ results.total = 23 /\ results.critical = 5 /\ results.high = 6
    /\ results.medium = 1 /\ results.low = 1

InstallPhaseOver == pc \notin {"register", "install"}
ScanPhaseOver    == pc \notin {"register", "install", "scan"}

ScanCompleted(a) == <<a, "ok">> \in Range(scanLog)
ScanThrew(a)     == <<a, "threw">> \in Range(scanLog)

\* C7: at the end of the scan phase the per-scanner list holds exactly one
\* entry for each adapter whose scan() completed and none for one whose scan()
\* threw, in registration order.
C7_OneEntryPerCompletedScan ==
    ScanPhaseOver =>
        LET completed == SelectSeq(scanners, ScanCompleted)
        IN  /\ [k \in DOMAIN results.scannerResults |->
                    results.scannerResults[k].scanner]
                   = [k \in DOMAIN completed |-> Name(completed[k])]
            /\ \A a \in Adapters :
                   ScanThrew(a) =>
                       \A k \in DOMAIN results.scannerResults :
                           results.scannerResults[k].scanner # Name(a)

C7_Witness ==
    /\ ScanPhaseOver
    /\ ScanCompleted("trivy") /\ ScanThrew("cdxgen")
    /\ ScanCompleted("secret") /\ ScanThrew("config")
    /\ Len(results.scannerResults) = 2

IsPrefix(s, t) == Len(s) <= Len(t) /\ SubSeq(t, 1, Len(s)) = s

\* C8: an adapter whose install() or scan() throws does not abort the phase:
\* once the install phase is over install() has been invoked on every
\* registered adapter, once the scan phase is over scan() has been invoked on
\* every registered adapter, and no step removes or changes an entry already
\* in the per-scanner list.
C8_FailingAdapterDoesNotAbort ==
    /\ [](InstallPhaseOver =>
              [k \in DOMAIN installLog |-> installLog[k][1]] = Registration)
    /\ [](ScanPhaseOver =>
              [k \in DOMAIN scanLog |-> scanLog[k][1]] = Registration)
    /\ [][IsPrefix(results.scannerResults, results.scannerResults')]_vars

C8_Witness ==
    /\ ScanPhaseOver
    /\ installLog[2] = <<"cdxgen", "threw">> /\ installLog[3] = <<"secret", "ok">>
    /\ installLog[4] = <<"config", "ok">>
    /\ scanLog[1] = <<"trivy", "ok">> /\ scanLog[2] = <<"cdxgen", "threw">>
    /\ scanLog[3] = <<"secret", "ok">> /\ scanLog[4] = <<"config", "ok">>
    /\ Len(results.scannerResults) = 3

\* C9: an adapter whose install() threw has no entry in the per-scanner list
\* (and so contributes nothing to the aggregate).
C9_FailedInstallContributesNothing ==
    \A a \in Adapters :
        <<a, "threw">> \in Range(installLog) =>
            \A k \in DOMAIN results.scannerResults :
                results.scannerResults[k].scanner # Name(a)

UploadStarted  == attempt > 0 \/ posts > 0 \/ uploadStatus # "none"
UploadFinished == attempt = 0 /\ uploadStatus # "none"

\* C10: the phases run in the order install-all, scan-all, display, set
\* outputs, upload, post-comment, fail-decision, each completing before the
\* next begins: no scan() before every install() has settled, display after
\* all scans, outputs after display, upload after the outputs, the comment
\* after the upload has returned, and the fail decision only after the upload
\* (all its attempts) and the comment have finished.
C10_PhasesInOrder ==
    /\ (Len(scanLog) > 0) => (Len(installLog) = Len(Registration))
    /\ displayed => (Len(scanLog) = Len(Registration))
    /\ (outputs # Undefined) => displayed
    /\ UploadStarted => (outputs # Undefined)
    /\ (commentStatus # "none") => UploadFinished
    /\ (runStatus # "running" \/ failReasons # <<>>) =>
           (UploadFinished /\ commentStatus # "none")

C10_Witness ==
    /\ pc = "done"
    /\ \E k \in DOMAIN installLog : installLog[k][2] = "threw"
    /\ posts = maxRetries /\ uploadStatus = "failed"
    /\ commentStatus = "posted"
    /\ runStatus = "issues"

Returned == pc \in {"comment", "decide", "done"}

\* C11: uploadCombinedResults sends at most 3 POST requests per run; a
\* further request is sent only if the previous one failed with one of
\* ETIMEDOUT, ECONNABORTED, ECONNRESET, ENOTFOUND; once a request succeeded
\* or failed with any other error the function has returned and no request
\* follows.
C11_AtMostThreeAttemptsOnlyAfterRetryable ==
    /\ [](posts <= 3)
    /\ [][posts' # posts =>
              /\ posts' = posts + 1
              /\ uploadStatus = "none"
              /\ posts > 0 =>
                     lastError \in {"ETIMEDOUT", "ECONNABORTED", "ECONNRESET",
                                    "ENOTFOUND"}]_vars
    /\ [](lastError \notin {"none", "ETIMEDOUT", "ECONNABORTED", "ECONNRESET",
                            "ENOTFOUND"} =>
              (uploadStatus = "failed" /\ Returned))
    /\ [](uploadStatus # "none" => (attempt = 0 /\ Returned))

C11_Witness ==
    /\ Decided
    /\ posts = 2
    /\ uploadStatus = "failed"
    /\ lastError = "ERR_BAD_REQUEST"

IsWaitOrPost(e) == e[1] \in {"wait", "post", "announce"}
WaitsAndPosts == SelectSeq(uploadLog, IsWaitOrPost)
IsPost(e) == e[1] = "post"

\* number of requests among the first n events of the log
PostsBefore(log, n) == Len(SelectSeq(SubSeq(log, 1, n), IsPost))

\* C12: no wait precedes the first upload attempt; the k-th attempt (k = 2, 3)
\* is preceded by a wait of 5000 ms * k (10000 ms, 15000 ms); the delay
\* announced after a failed attempt is the delay applied before the next one.
C12_RetryWaitLinear ==
    LET log == WaitsAndPosts
    IN  \A n \in DOMAIN log :
            LET k == PostsBefore(log, n)
            IN  /\ (log[n][1] = "post" /\ k = 1) =>
                       \A j \in 1 .. n : log[j][1] # "wait"
                /\ (log[n][1] = "post" /\ k > 1) =>
                       /\ log[n - 1] = <<"wait", 5000 * k>>
                       /\ k = 2 => log[n - 1][2] = 10000
                       /\ k = 3 => log[n - 1][2] = 15000
                /\ log[n][1] = "wait" =>
                       /\ n < Len(log) => log[n + 1][1] = "post"
                       /\ log[n - 1] = <<"announce", log[n][2]>>
                /\ (log[n][1] = "announce" /\ n < Len(log)) =>
                       log[n + 1] = <<"wait", log[n][2]>>

C12_Witness ==
    WaitsAndPosts = << <<"post", 0>>, <<"announce", 10000>>, <<"wait", 10000>>,
                       <<"post", 0>>, <<"announce", 15000>>, <<"wait", 15000>>,
                       <<"post", 0>> >>

\* the verdict the fail policy gives for the inputs and scan results alone
VerdictOfScans ==
    IF ShouldFail(inputs, results.scannerResults, <<>>).ret
    THEN "issues" ELSE "success"

\* C13: an upload failure is never fatal: however the attempts end,
\* uploadCombinedResults returns, the run goes on through the post-comment
\* stage to the fail decision, and the verdict is the one the scan results
\* and inputs give, as after a successful upload.
C13_UploadFailureNeverFatal ==
    /\ [](Decided => (commentStatus # "none" /\ runStatus = VerdictOfScans))
    /\ [][pc = "upload" => pc' \in {"upload", "comment"}]_vars
    /\ (pc = "upload") ~> Decided

C13_Witness ==
    /\ Decided
    /\ uploadStatus = "failed" /\ posts = 3 /\ lastError = "ETIMEDOUT"
    /\ commentStatus = "posted"
    /\ runStatus = "issues"

NoSbomArtifact ==
    \/ SbomPath(results.scannerResults) = ""
    \/ <<"existsSync", 0>> \in Range(uploadLog)

\* C14: if at upload time the SBOM adapter produced no result, or its
\* sbomPath does not exist on disk, the upload is skipped: no POST request
\* is sent, no retry follows, and so the config and secret results are not
\* uploaded in that run.
C14_NoSbomSkipsUpload ==
    /\ (<<"existsSync", 0>> \in Range(uploadLog)) => Returned
    /\ (Returned /\ NoSbomArtifact) =>
           /\ uploadStatus = "skipped"
           /\ posts = 0
           /\ \A k \in DOMAIN uploadLog : uploadLog[k][1] \notin {"post", "wait"}
           /\ attempt = 0
    /\ (uploadStatus = "skipped") => NoSbomArtifact

C14_Witness ==
    /\ Decided
    /\ uploadLog = << <<"existsSync", 0>> >>
    /\ uploadStatus = "skipped" /\ posts = 0
    /\ GetConfigResult(results.scannerResults) # Undefined
    /\ GetSecretResult(results.scannerResults) # Undefined

\* the single scan() of the specification SpecScan has settled
ScanDone == scanEnv # Undefined /\ Len(scanLog) = 1
Scanned(a) == ScanDone /\ scanners = <<a>>
ScanReturned == ScanDone /\ Len(results.scannerResults) = 1
ScanRejected ==
    ScanDone /\ scanLog[1][2] = "threw" /\ results.scannerResults = <<>>
Returned1 == results.scannerResults[1]

\* what the plain vulnerability adapter returns for the configuration of scanEnv
PlainResult == TrivyScan([scanEnv EXCEPT !.file = scanEnv.plainFile])

CdxgenOwnPathFailed ==
    scanEnv.target /\ (~scanEnv.exec \/ ~scanEnv.sbom \/ ~scanEnv.file.exists)

\* C15: if SBOM generation or the SBOM-mode vulnerability scan fails inside
\* scan() of the SBOM+vulnerability adapter, scan() returns exactly what the
\* plain vulnerability adapter returns for the same config, and throws only
\* if that fallback throws.
C15_SbomFailureFallsBackToPlainScan ==
    (Scanned("cdxgen") /\ CdxgenOwnPathFailed) =>
        IF PlainResult = Threw
        THEN ScanRejected
        ELSE /\ ScanReturned
             /\ \A f \in DOMAIN PlainResult : Returned1[f] = PlainResult[f]

SixFields(item) ==
    <<item.File, item.StartLine, item.EndLine, item.StartColumn, item.EndColumn,
      item.Secret>>

RawFindings == scanEnv.file.findings

IsFirstOfItsKind(k) ==
    \A j \in 1 .. (k - 1) : SixFields(RawFindings[j]) # SixFields(RawFindings[k])

RECURSIVE FirstsUpTo(_)
FirstsUpTo(n) ==
    IF n = 0 THEN <<>>
    ELSE IF IsFirstOfItsKind(n)
         THEN Append(FirstsUpTo(n - 1), FilteredSecret(RawFindings[n]))
         ELSE FirstsUpTo(n - 1)

\* C16: the secret adapter keeps exactly the first finding, in input order,
\* of every distinct combination of File, StartLine, EndLine, StartColumn,
\* EndColumn and Secret, never merges findings that differ in one of the six,
\* and total is the number of distinct combinations.
C16_DuplicatesIffSixFieldsEqual ==
    (Scanned("secret") /\ ScanReturned) =>
        /\ Returned1.secrets = FirstsUpTo(Len(RawFindings))
        /\ Returned1.total =
               Cardinality({SixFields(RawFindings[k]) : k \in DOMAIN RawFindings})

\* C17: every result returned by the plain vulnerability adapter, the
\* SBOM+vulnerability adapter or the config adapter has
\* critical + high + medium + low = total.
C17_SeverityCountsSumToTotal ==
    (ScanReturned /\ scanners[1] \in {"trivy", "cdxgen", "config"}) =>
        Returned1.critical + Returned1.high + Returned1.medium + Returned1.low
            = Returned1.total

ReportUnparseable ==
    /\ scanEnv.target /\ scanEnv.rules /\ scanEnv.exec /\ scanEnv.sbom
    /\ scanEnv.file = InvalidFile

\* C18: for each adapter, when the tool's output file exists but is not
\* valid JSON, scan() returns a result with total and the four severity
\* counts 0 instead of throwing, and the adapter gets its entry in the
\* per-scanner list.
C18_ParseFailureGivesZeroResult ==
    (ScanDone /\ ReportUnparseable) =>
        /\ ScanReturned
        /\ Returned1.scanner = Name(scanners[1])
        /\ \A f \in {"total", "critical", "high", "medium", "low"} : Returned1[f] = 0

TargetOrOutputMissing ==
    \/ ~scanEnv.target
    \/ scanEnv.rules /\ scanEnv.exec /\ scanEnv.sbom /\ ~scanEnv.file.exists

\* C19: every adapter's scan() throws, and leaves no per-scanner entry, when
\* the scan target does not exist and when the external tool produced no
\* output file; it never returns a result in these cases.
C19_MissingTargetOrOutputThrows ==
    (ScanDone /\ TargetOrOutputMissing) => ScanRejected

\* C20: when the rules file is absent the secret adapter's scan() throws:
\* the secret-detection tool is not invoked, nothing is returned, and the
\* per-scanner list has no secret entry.
C20_NoRulesFileNoSecretScan ==
    (Scanned("secret") /\ ~scanEnv.rules) =>
        /\ ~scanEnv.invoked
        /\ ScanRejected
        /\ GetSecretResult(results.scannerResults) = Undefined

C20_Witness ==
    /\ Scanned("secret")
    /\ ~scanEnv.rules /\ scanEnv.target /\ scanEnv.exec
    /\ scanLog = << <<"secret", "threw">> >>

ReportParsed == scanEnv.file.exists /\ scanEnv.file.valid

ExactlyRated(v) == v.Severity \in {"CRITICAL", "HIGH", "MEDIUM", "LOW"}

\* C21: in the plain vulnerability adapter a vulnerability whose severity
\* is not exactly CRITICAL, HIGH, MEDIUM or LOW is dropped: it is counted in
\* no severity count and not in total, and it is not among the findings the
\* adapter returns.
C21_UnratedVulnerabilityDropped ==
    (Scanned("trivy") /\ ScanReturned /\ ReportParsed) =>
        LET kept == SelectSeq(RawFindings, ExactlyRated)
        IN  /\ Returned1.total = Len(kept)
            /\ Returned1.critical + Returned1.high + Returned1.medium
                   + Returned1.low = Len(kept)
            /\ Len(Returned1.vulnerabilities) = Len(kept)
            /\ \A k \in DOMAIN Returned1.vulnerabilities :
                   Returned1.vulnerabilities[k].severity = kept[k].Severity

\* what the plain vulnerability adapter counts for the same severities
SameAsVulnerabilities == TrivyParseResults(scanEnv.file)

\* C22: the config adapter classifies a severity string as the vulnerability
\* adapter does: a misconfiguration and a vulnerability with the same
\* severity are counted in the same bucket and in total, or both in none.
C22_ConfigClassifiesLikeVulnerabilities ==
    (Scanned("config") /\ ScanReturned /\ ReportParsed /\ Len(RawFindings) = 1) =>
        \A f \in {"total", "critical", "high", "medium", "low"} :
            Returned1[f] = SameAsVulnerabilities[f]

SeverityEnum == {"CRITICAL", "HIGH", "MEDIUM", "LOW", "UNKNOWN"}

ReturnedSeverities ==
    CASE scanners[1] = "trivy" ->
             {Returned1.vulnerabilities[k].severity :
                 k \in DOMAIN Returned1.vulnerabilities}
      [] scanners[1] = "cdxgen" ->
             {Returned1.vulnerabilities[k].Severity :
                 k \in DOMAIN Returned1.vulnerabilities}
      [] scanners[1] = "config" ->
             {Returned1.misconfigurations[k].Severity :
                 k \in DOMAIN Returned1.misconfigurations}
      [] OTHER -> {}

\* C23: every finding returned by the vulnerability, SBOM+vulnerability and
\* config adapters has a severity among CRITICAL, HIGH, MEDIUM, LOW, UNKNOWN,
\* whatever the tool reported (missing, lower-case, unrecognized).
C23_ReturnedSeverityIsEnum ==
    ScanReturned => ReturnedSeverities \subseteq SeverityEnum

ScanStep == pc = "scan" /\ Len(scanLog') = Len(scanLog) + 1

LastScan == scanLog[Len(scanLog)]

\* C24: the aggregate starts with all counts 0 and an empty per-scanner list,
\* is written only by a step of the scan phase, changes exactly once (one new
\* entry) for each adapter scan that returns a result and not at all for one
\* that throws, and is left as it is by display, set outputs, every upload
\* attempt, post-comment and the fail decision.
C24_AggregateWrittenOnlyByScans ==
    /\ [](scanLog = <<>> => results = EmptyResults)
    /\ [][results' # results =>
              /\ ScanStep
              /\ LastScan' = <<scanners[idx], "ok">>]_vars
    /\ [][ScanStep =>
              IF LastScan'[2] = "ok"
              THEN /\ Len(results'.scannerResults) =
                          Len(results.scannerResults) + 1
                   /\ results' # results
              ELSE results' = results]_vars
    /\ [][ScanPhaseOver => results' = results]_vars
    /\ [](ScanPhaseOver =>
              Len(results.scannerResults) =
                  Cardinality({k \in DOMAIN scanLog : scanLog[k][2] = "ok"}))

C24_Witness ==
    /\ Decided
    /\ scanLog[1] = <<"trivy", "ok">> /\ scanLog[2] = <<"cdxgen", "ok">>
    /\ scanLog[3] = <<"secret", "threw">> /\ scanLog[4] = <<"config", "ok">>
    /\ posts = 3 /\ uploadStatus = "failed"
    /\ commentStatus = "failed"
    /\ Len(results.scannerResults) = 3 /\ results.total > 0

\* the registered names that contain the word, compared without case
NamesContaining(word) ==
    CASE word = "sbom"   -> {"CDXgen SBOM Generator"}
      [] word = "config" -> {"Config Scanner"}
      [] word = "secret" -> {"Secret Detector"}

IsFirstMatch(found, list, word) ==
    IF \A k \in DOMAIN list : list[k].scanner \notin NamesContaining(word)
    THEN found = Undefined
    ELSE \E k \in DOMAIN list :
             /\ found = list[k]
             /\ list[k].scanner \in NamesContaining(word)
             /\ \A j \in 1 .. (k - 1) :
                    list[j].scanner \notin NamesContaining(word)

HadDeletionSucceeded ==
    Scan(scanners[1], [scanEnv EXCEPT !.nodeModules = "deleted", !.invoked = FALSE])

DeletionFailed ==
    /\ ScanDone
    /\ scanners[1] \in {"secret", "config"}
    /\ scanEnv.nodeModules = "undeletable"

\* C26: when node_modules beneath the target cannot be deleted, scan() of the
\* secret and config adapters throws exactly when it would have thrown had
\* the deletion succeeded, and otherwise returns the same result.
C26_DeletionFailureNotFatal ==
    DeletionFailed =>
        IF HadDeletionSucceeded = Threw
        THEN ScanRejected
        ELSE /\ ScanReturned
             /\ Returned1 = HadDeletionSucceeded @@ [scanner |-> Name(scanners[1])]

C26_Witness ==
    /\ DeletionFailed
    /\ scanners = <<"config">>
    /\ ScanReturned /\ Returned1.total = 2
    /\ scanEnv.invoked

\* C27: with every toggle at its default, no master override and exit-code
\* not "0", the run is failed whenever the total written to the action
\* outputs is greater than 0, whichever adapters succeeded or failed.
C27_VerdictAgreesWithReportedTotal ==
    (Decided /\ inputs = DefaultInputs /\ outputs.vulnerabilitiesFound > 0) =>
        runStatus = "issues"

Counts == {"total", "critical", "high", "medium", "low"}

\* C28: in every state of a run the aggregate's total is at least critical +
\* high + medium + low, the five counts are not negative, and no step makes
\* any of them smaller.
C28_TotalCoversSeverities ==
    /\ [](/\ results.total >= results.critical + results.high
                                  + results.medium + results.low
          /\ \A f \in Counts : results[f] >= 0)
    /\ [][\A f \in Counts : results'[f] >= results[f] ]_vars

C28_Witness ==
    /\ ScanPhaseOver
    /\ results.total = 23
    /\ results.critical + results.high + results.medium + results.low = 13
    /\ ScanCompleted("secret") /\ ScanCompleted("config")

\* C29: in every result of the config adapter the number of misconfiguration
\* records in configScanResponseDto.Results equals total and equals the
\* length of the flattened misconfigurations list, for every tool output,
\* results without a Target included.
C29_UploadedMisconfigurationsMatchTotal ==
    (Scanned("config") /\ ScanReturned) =>
        /\ Len(Returned1.configScanResponseDto.Results) = Returned1.total
        /\ Len(Returned1.misconfigurations) = Returned1.total

\* C30: run() reads the stored reasons only after the shouldFail() call of the
\* same decision has set them to a non-empty list: a FAIL verdict comes with
\* the reasons of this decision, the read never fails, and under the master
\* override or exit-code "0" the run succeeds with the reasons never set.
C30_ReasonsSetBeforeRead ==
    Decided =>
        /\ runStatus \in {"success", "issues"}
        /\ runStatus = "issues" =>
               /\ failReasons = <<FailReasonsOf(inputs, results.scannerResults)>>
               /\ failReasons[1] # <<>>
        /\ ~NotSuppressed => (runStatus = "success" /\ failReasons = <<>>)

C30_Witness ==
    /\ Decided /\ NotSuppressed
    /\ runStatus = "issues"
    /\ HasFindings("vulnerability")
    /\ failReasons = << <<Reason("vulnerability")>> >>
    /\ inputs.failOnMisconfiguration = "false" /\ inputs.failOnSecret = "false"
    /\ HasFindings("misconfiguration") /\ HasFindings("secret")

=============================================================================
